---- MODULE Spec2Model ----
(***************************************************************************)
(* Model of package errs (github.com/4nd3r5on/errs): the Error value, the  *)
(* composition operations Wrap and Mark, the fluent Factory, the           *)
(* classification mapper GetHTTPCode and the HTTP renderer HandleHTTP.     *)
(*                                                                         *)
(* Go errors are heap objects compared by pointer identity, so the model   *)
(* keeps a heap of error objects.  The sentinels of the canonical error    *)
(* set live at the fixed addresses 1..12; the objects allocated at run     *)
(* time are the elements of the sequence heap, the address of heap[i]      *)
(* being i + 12.  Nil (0) is the nil error.                                *)
(***************************************************************************)
EXTENDS Naturals, Sequences, FiniteSets, TLC

VARIABLES
    heap,     \* the error objects allocated so far
    prov,     \* history: how each heap object came to be (same length as heap)
    last,     \* history: the last operation, its operand and its result
    facs,     \* the factory snapshots allocated so far (address = index)
    flog,     \* history: how each factory snapshot came to be
    resp      \* HandleHTTP: the response written and the log calls dispatched

vars == <<heap, prov, last, facs, flog, resp>>

(***************************************************************************)
(* Bounds of the model.                                                    *)
(***************************************************************************)
MaxOps == 3        \* Wrap/Mark results built on top of the initial errors
MaxChain == 2      \* Wrap/Mark layers of an error handed to GetHTTPCode
MaxFactoryOps == 3 \* Factory method calls after F()
MaxLayers == 2     \* Wrap/Mark layers of an error handed to HandleHTTP

Nil == 0

(***************************************************************************)
(* The canonical error set.  Each sentinel is one errors.New object; the   *)
(* model allocates them at fixed addresses at the bottom of the heap.      *)
(***************************************************************************)
ErrNotImplemented   == 1
ErrRemoteServiceErr == 2
ErrRateLimited      == 3
ErrInvalidArgument  == 4
ErrMissingArgument  == 5
ErrOutOfRange       == 6
ErrPermissionDenied == 7
ErrUnauthorized     == 8
ErrExists           == 9
ErrNotFound         == 10
ErrOutdated         == 11
DeadlineExceeded    == 12      \* context.DeadlineExceeded

NilDetails == "<nil>"          \* a nil UserDetails
Unmarshalable == "<chan>"      \* a UserDetails that json.Marshal rejects

\* An errors.New value: a leaf with a fixed text.
errorString(msg) == [kind |-> "errorString", msg |-> msg]

\* The zero *Error with the given cause, as New and Newf allocate it.
ErrorValue(internal) ==
    [kind |-> "Error", Internal |-> internal,
     ExposeInternal |-> FALSE, SafeMessage |-> "", LogDetails |-> <<>>,
     UserDetails |-> NilDetails, Domain |-> "", Markers |-> <<>>]

SentinelHeap ==
    << errorString("not implemented"),
       errorString("remote service error"),
       errorString("rate limited"),
       errorString("invalid argument"),
       errorString("missing argument"),
       errorString("out of range"),
       errorString("permission denied"),
       errorString("unauthorized"),
       errorString("already exists"),
       errorString("not found"),
       errorString("outdated"),
       errorString("context deadline exceeded") >>

Sentinels == 1 .. Len(SentinelHeap)

\* The object at address p, and the allocation of a new object.
Deref(h, p) == IF p \in Sentinels THEN SentinelHeap[p] ELSE h[p - Len(SentinelHeap)]
Addr(i) == i + Len(SentinelHeap)
Alloc(h, obj) == [heap |-> Append(h, obj), ret |-> Addr(Len(h) + 1)]

(***************************************************************************)
(* The error interface.                                                    *)
(***************************************************************************)
\* An Error method that answers with the safe message in place of the cause.
ErrorStrSafe(h, p) ==
    IF Deref(h, p).kind = "Error" THEN Deref(h, p).SafeMessage ELSE Deref(h, p).msg

RECURSIVE ErrorStr(_, _)
\* err.Error().  Error.Error returns Internal.Error(); an errors.New or
\* fmt.Errorf value returns the text fixed when it was created.
ErrorStr(h, p) ==
    IF Deref(h, p).kind = "Error"
    THEN ErrorStr(h, Deref(h, p).Internal)
    ELSE Deref(h, p).msg

\* errors.Unwrap(err): Error.Unwrap returns Internal, a fmt.Errorf value
\* with one %w returns its operand; an errors.New value has no Unwrap, and
\* a fmt.Errorf value with several %w has Unwrap() []error, which
\* errors.Unwrap does not call.
Unwrap(h, p) ==
    IF Deref(h, p).kind \in {"Error", "wrapError"} THEN Deref(h, p).Internal ELSE Nil

Range(s) == { s[i] : i \in DOMAIN s }

\* Error.Is(target): the value "is" each of its markers.
ErrorIs(h, p, target) == target \in Range(Deref(h, p).Markers)

RECURSIVE Is(_, _, _)
\* errors.Is(err, target): walk the Unwrap chain, at each link comparing by
\* identity and asking the link's Is method.
Is(h, p, target) ==
    IF p = Nil \/ target = Nil THEN p = target
    ELSE IF p = target THEN TRUE
    ELSE IF Deref(h, p).kind = "Error" /\ ErrorIs(h, p, target) THEN TRUE
    ELSE IF Deref(h, p).kind = "wrapErrors"
    THEN \E i \in DOMAIN Deref(h, p).errs : Is(h, Deref(h, p).errs[i], target)
    ELSE IF Unwrap(h, p) = Nil THEN FALSE
    ELSE Is(h, Unwrap(h, p), target)

\* IsAny(err, references...)
IsAny(h, p, references) ==
    \E i \in DOMAIN references : Is(h, p, references[i])

\* errors.As(err, &e) with e of type *Error: the first *Error of the chain,
\* Nil when there is none.
RECURSIVE AsError(_, _)
RECURSIVE AsErrorIn(_, _)
AsError(h, p) ==
    IF p = Nil THEN Nil
    ELSE IF Deref(h, p).kind = "Error" THEN p
    ELSE IF Deref(h, p).kind = "wrapErrors" THEN AsErrorIn(h, Deref(h, p).errs)
    ELSE AsError(h, Unwrap(h, p))

\* errors.As over the errors of an Unwrap() []error, depth first in order.
AsErrorIn(h, errs) ==
    IF errs = <<>> THEN Nil
    ELSE IF AsError(h, Head(errs)) # Nil THEN AsError(h, Head(errs))
    ELSE AsErrorIn(h, Tail(errs))

(***************************************************************************)
(* Options: an Option is a function on an Error; the options of the model  *)
(* each assign one field of the value they are applied to.                 *)
(***************************************************************************)
ApplyOption(e, opt) == [e EXCEPT ![opt.field] = opt.val]

RECURSIVE ApplyOptions(_, _)
ApplyOptions(e, opts) ==
    IF opts = <<>> THEN e
    ELSE ApplyOptions(ApplyOption(e, Head(opts)), Tail(opts))

\* New(internalMsg, opts...)
New(h, internalMsg, opts) ==
    LET a == Alloc(h, errorString(internalMsg))
    IN  Alloc(a.heap, ApplyOptions(ErrorValue(a.ret), opts))

\* fmt.Errorf("%s: %w", msg, err): the text is formatted once, here.
WrapError(h, msg, err) ==
    [kind |-> "wrapError", msg |-> msg \o ": " \o ErrorStr(h, err), Internal |-> err]

(***************************************************************************)
(* Composition operations.                                                 *)
(***************************************************************************)
\* A Wrap that forgets what the wrapped Error Value carried.
WrapLosesFields(h, err, msg, opts) ==
    IF err = Nil THEN [heap |-> h, ret |-> Nil]
    ELSE LET a == Alloc(h, WrapError(h, msg, err))
         IN  Alloc(a.heap, ApplyOptions(ErrorValue(a.ret), opts))

\* A Wrap that makes an Error Value out of a nil error.
WrapOfNil(h, err, msg, opts) ==
    IF err = Nil THEN New(h, msg, opts)
    ELSE LET a == Alloc(h, WrapError(h, msg, err))
             e == IF Deref(h, err).kind = "Error"
                  THEN [Deref(h, err) EXCEPT !.Internal = a.ret]
                  ELSE ErrorValue(a.ret)
         IN  Alloc(a.heap, ApplyOptions(e, opts))

\* Wrap(err, msg, opts...): nil for a nil err; otherwise a new Error Value
\* whose cause is err under the context msg, carrying over the fields and
\* markers of err when err is an Error Value, with the options applied last.
Wrap(h, err, msg, opts) ==
    IF err = Nil THEN [heap |-> h, ret |-> Nil]
    ELSE LET a == Alloc(h, WrapError(h, msg, err))
             e == IF Deref(h, err).kind = "Error"
                  THEN [Deref(h, err) EXCEPT !.Internal = a.ret]
                  ELSE ErrorValue(a.ret)
         IN  Alloc(a.heap, ApplyOptions(e, opts))

\* A Mark that appends to the markers of its argument in place.
MarkInPlace(h, err, sentinel, opts) ==
    IF err = Nil THEN [heap |-> h, ret |-> Nil]
    ELSE IF Deref(h, err).kind = "Error"
    THEN [heap |-> [h EXCEPT ![err - Len(SentinelHeap)] = ApplyOptions(
                       [Deref(h, err) EXCEPT !.Markers = Append(@, sentinel)], opts)],
          ret  |-> err]
    ELSE Alloc(h, ApplyOptions([ErrorValue(err) EXCEPT !.Markers = <<sentinel>>], opts))

\* A Mark whose clone carries only the new sentinel.
MarkForgetsMarkers(h, err, sentinel, opts) ==
    IF err = Nil THEN [heap |-> h, ret |-> Nil]
    ELSE LET e == IF Deref(h, err).kind = "Error"
                  THEN [Deref(h, err) EXCEPT !.Markers = <<sentinel>>]
                  ELSE [ErrorValue(err) EXCEPT !.Markers = <<sentinel>>]
         IN  Alloc(h, ApplyOptions(e, opts))

\* Mark(err, sentinel, opts...): nil for a nil err; a foreign err becomes the
\* cause of a new Error Value marked with sentinel; an Error Value is cloned
\* with sentinel added to the clone's markers.  Options are applied last.
Mark(h, err, sentinel, opts) ==
    IF err = Nil THEN [heap |-> h, ret |-> Nil]
    ELSE LET e == IF Deref(h, err).kind = "Error"
                  THEN [Deref(h, err) EXCEPT !.Markers = Append(@, sentinel)]
                  ELSE [ErrorValue(err) EXCEPT !.Markers = <<sentinel>>]
         IN  Alloc(h, ApplyOptions(e, opts))

(***************************************************************************)
(* The classification mapper.                                              *)
(***************************************************************************)
StatusBadRequest          == 400
StatusUnauthorized        == 401
StatusForbidden           == 403
StatusNotFound            == 404
StatusConflict            == 409
StatusTooManyRequests     == 429
StatusInternalServerError == 500
StatusNotImplemented      == 501
StatusBadGateway          == 502
StatusGatewayTimeout      == 504

\* A GetHTTPCode that tests ErrNotFound before the other client errors.
GetHTTPCodeNotFoundFirst(h, err) ==
    IF Is(h, err, ErrNotImplemented) THEN StatusNotImplemented
    ELSE IF Is(h, err, DeadlineExceeded) THEN StatusGatewayTimeout
    ELSE IF Is(h, err, ErrRemoteServiceErr) THEN StatusBadGateway
    ELSE IF Is(h, err, ErrRateLimited) THEN StatusTooManyRequests
    ELSE IF Is(h, err, ErrNotFound) THEN StatusNotFound
    ELSE IF IsAny(h, err, <<ErrInvalidArgument, ErrMissingArgument, ErrOutOfRange>>)
         THEN StatusBadRequest
    ELSE IF Is(h, err, ErrPermissionDenied) THEN StatusForbidden
    ELSE IF Is(h, err, ErrUnauthorized) THEN StatusUnauthorized
    ELSE IF IsAny(h, err, <<ErrExists, ErrOutdated>>) THEN StatusConflict
    ELSE StatusInternalServerError

\* GetHTTPCode(err): the switch, case by case in the order of the source.
GetHTTPCode(h, err) ==
    IF Is(h, err, ErrNotImplemented) THEN StatusNotImplemented
    ELSE IF Is(h, err, DeadlineExceeded) THEN StatusGatewayTimeout
    ELSE IF Is(h, err, ErrRemoteServiceErr) THEN StatusBadGateway
    ELSE IF Is(h, err, ErrRateLimited) THEN StatusTooManyRequests
    ELSE IF IsAny(h, err, <<ErrInvalidArgument, ErrMissingArgument, ErrOutOfRange>>)
         THEN StatusBadRequest
    ELSE IF Is(h, err, ErrPermissionDenied) THEN StatusForbidden
    ELSE IF Is(h, err, ErrUnauthorized) THEN StatusUnauthorized
    ELSE IF IsAny(h, err, <<ErrExists, ErrOutdated>>) THEN StatusConflict
    ELSE IF Is(h, err, ErrNotFound) THEN StatusNotFound
    ELSE StatusInternalServerError

(***************************************************************************)
(* The log renderer.  A log call is recorded as the logger it went to, its *)
(* level, its message and its attributes.                                  *)
(***************************************************************************)
LevelDebug == "DEBUG"
LevelWarn  == "WARN"
LevelError == "ERROR"

DefaultLogErrOptions ==
    [Logger |-> "slog.Default", LogLevel |-> LevelError, LoggerAttrs |-> <<>>]

\* The LogErrOption constructors: each sets one field of the options.
LogErrUseLogger(logger) == [field |-> "Logger", val |-> logger]
LogErrUseLogLevel(level) == [field |-> "LogLevel", val |-> level]
LogErrUseLoggerAttrs(args) == [field |-> "LoggerAttrs", val |-> args]

LogCall(logger, level, msg, attrs) ==
    [logger |-> logger, level |-> level, msg |-> msg, attrs |-> attrs]

\* A LogErr that puts the supplied attributes first and always adds the
\* domain.
LogErrExtraFirst(h, err, opts) ==
    IF err = Nil THEN <<>>
    ELSE LET config == ApplyOptions(DefaultLogErrOptions, opts)
             e      == AsError(h, err)
         IN  IF e # Nil
             THEN << LogCall(config.Logger, config.LogLevel, ErrorStr(h, err),
                        config.LoggerAttrs
                        \o <<"domain", Deref(h, e).Domain>>
                        \o Deref(h, e).LogDetails) >>
             ELSE << LogCall(config.Logger, config.LogLevel, ErrorStr(h, err),
                        config.LoggerAttrs) >>

\* LogErr(ctx, err, opts...): the log calls it dispatches.
LogErr(h, err, opts) ==
    IF err = Nil THEN <<>>
    ELSE LET config == ApplyOptions(DefaultLogErrOptions, opts)
             e      == AsError(h, err)
         IN  IF e # Nil
             THEN << LogCall(config.Logger, config.LogLevel, ErrorStr(h, err),
                        Deref(h, e).LogDetails
                        \o (IF Deref(h, e).Domain # ""
                            THEN <<"domain", Deref(h, e).Domain>> ELSE <<>>)
                        \o config.LoggerAttrs) >>
             ELSE << LogCall(config.Logger, config.LogLevel, ErrorStr(h, err),
                        config.LoggerAttrs) >>

(***************************************************************************)
(* The HTTP renderer.                                                      *)
(***************************************************************************)
\* HTTPGetLogLevel(status)
HTTPGetLogLevel(status) ==
    IF status >= 500 THEN LevelError
    ELSE IF status = StatusUnauthorized \/ status = StatusForbidden THEN LevelWarn
    ELSE LevelDebug

\* http.StatusText(status), for the statuses GetHTTPCode returns.
StatusText(status) ==
    CASE status = 400 -> "Bad Request"
      [] status = 401 -> "Unauthorized"
      [] status = 403 -> "Forbidden"
      [] status = 404 -> "Not Found"
      [] status = 409 -> "Conflict"
      [] status = 429 -> "Too Many Requests"
      [] status = 500 -> "Internal Server Error"
      [] status = 501 -> "Not Implemented"
      [] status = 502 -> "Bad Gateway"
      [] status = 504 -> "Gateway Timeout"
      [] OTHER -> ""

\* The JSON text of a string without characters that JSON escapes (the
\* strings of this model have none).
JSONString(str) == "\"" \o str \o "\""

\* json.Marshal(ErrorHTTPResponse{Error: message, Details: details}): the
\* details are left out when nil; a value JSON cannot encode is an error.
MarshalResponse(message, details) ==
    IF details = Unmarshalable THEN [ok |-> FALSE, bytes |-> ""]
    ELSE [ok |-> TRUE,
          bytes |-> "{\"error\":" \o JSONString(message)
                    \o (IF details = NilDetails THEN ""
                        ELSE ",\"details\":" \o JSONString(details))
                    \o "}"]

\* A choice of message that shows the cause whenever there is no safe message.
ResponseMessageLeaks(h, e, status) ==
    IF Deref(h, e).SafeMessage # "" THEN Deref(h, e).SafeMessage
    ELSE ErrorStr(h, Deref(h, e).Internal)

\* The message of the response for the Error Value e: the safe message, else
\* the text of the cause if it may be exposed, else the status text.
ResponseMessage(h, e, status) ==
    IF Deref(h, e).SafeMessage # "" THEN Deref(h, e).SafeMessage
    ELSE IF Deref(h, e).ExposeInternal THEN ErrorStr(h, Deref(h, e).Internal)
    ELSE StatusText(status)

\* The texts of the errors of json.Marshal and of w.Write.
MarshalErr == "json: unsupported type: chan int"
WriteErr == "broken pipe"

\* A plain-text body that carries the text of the error itself.
PlainBodyLeaks(h, err, status) == ErrorStr(h, err) \o "\n"

\* The body http.Error(w, message, status) writes for an error without an
\* Error Value in its chain: the status text and a newline.
PlainBody(h, err, status) == StatusText(status) \o "\n"

\* The request being served.
Request == [Method |-> "GET", Path |-> "/users/42", RemoteAddr |-> "10.0.0.1:4711"]

NoResp ==
    [called |-> FALSE, err |-> Nil, opts |-> <<>>, handled |-> FALSE, status |-> 0,
     contentType |-> "", body |-> "", writeFailed |-> FALSE, logs |-> <<>>]

\* A failure path that answers with the classified status and JSON headers.
MarshalFailedKeepsStatus(called, status, logs) ==
    [called EXCEPT !.handled = TRUE, !.status = status,
                   !.contentType = "application/json", !.logs = logs]

\* HandleHTTP when json.Marshal failed: after logging, the status 500 and
\* nothing else is written, and the result is true.
MarshalFailed(called, status, logs) ==
    [called EXCEPT !.handled = TRUE, !.status = StatusInternalServerError,
                   !.logs = logs]

\* HandleHTTP(ctx, w, r, err, opts...): what it returns, what it writes to w
\* (status 0: WriteHeader was not called) and the log calls it dispatches.
\* writeFails says whether w.Write returns an error.
HandleHTTP(h, r, err, opts, writeFails) ==
    IF err = Nil THEN [NoResp EXCEPT !.called = TRUE, !.opts = opts]
    ELSE
    LET status    == GetHTTPCode(h, err)
        config    == ApplyOptions(
                        [Logger |-> "slog.Default",
                         LogLevel |-> HTTPGetLogLevel(status),
                         LoggerAttrs |-> <<>>], opts)
        httpAttrs == << "method", r.Method, "path", r.Path,
                        "status", status, "remote_addr", r.RemoteAddr >>
        logOpts   == Append(opts, LogErrUseLoggerAttrs(httpAttrs))
        logs1     == LogErr(h, err, logOpts)
        e         == AsError(h, err)
        called    == [NoResp EXCEPT !.called = TRUE, !.err = err, !.opts = opts]
    IN  IF e = Nil
        THEN [called EXCEPT
                !.handled = FALSE,
                !.status = status,
                !.contentType = "text/plain; charset=utf-8",
                !.body = PlainBody(h, err, status),
                !.logs = Append(logs1,
                            LogCall(config.Logger, config.LogLevel,
                                    ErrorStr(h, err), config.LoggerAttrs))]
        ELSE
        LET logs2   == logs1 \o LogErr(h, err, logOpts)
            message == ResponseMessage(h, e, status)
            m       == MarshalResponse(message, Deref(h, e).UserDetails)
        IN  IF ~m.ok
            THEN MarshalFailed(called, status,
                    Append(logs2,
                        LogCall(config.Logger, LevelError,
                            "failed to marshal error response: " \o MarshalErr,
                            httpAttrs)))
            ELSE [called EXCEPT
                    !.handled = TRUE,
                    !.status = status,
                    !.contentType = "application/json",
                    !.body = m.bytes,
                    !.writeFailed = writeFails,
                    !.logs = IF writeFails
                             THEN Append(logs2,
                                    LogCall(config.Logger, LevelWarn,
                                        "failed to write error response: " \o WriteErr,
                                        httpAttrs))
                             ELSE logs2]

(***************************************************************************)
(* The Factory.  A factory snapshot is a heap object of its own: facs[f]   *)
(* is the struct behind the pointer f.  Slices are held by value: clone    *)
(* copies logDetails and markers, and no method appends to a slice that    *)
(* another snapshot holds.                                                 *)
(***************************************************************************)
\* F()
F ==
    [internal |-> Nil, safeMessage |-> "", logDetails |-> <<>>,
     userDetails |-> NilDetails, domain |-> "", markers |-> <<>>,
     private |-> TRUE, forced |-> "nil"]

\* A clone that hands back the receiver itself.
factory_cloneAliases(fs, f) == [facs |-> fs, ret |-> f]

\* f.clone(): a copy of the struct, with copies of logDetails and markers.
factory_clone(fs, f) == [facs |-> Append(fs, fs[f]), ret |-> Len(fs) + 1]

\* f.Message(fstr): the cause becomes fmt.Errorf(fstr), a new error object.
factory_Message(h, fs, f, fstr) ==
    LET cp == factory_clone(fs, f)
        a  == Alloc(h, errorString(fstr))
    IN  [heap |-> a.heap, facs |-> [cp.facs EXCEPT ![cp.ret].internal = a.ret],
         ret |-> cp.ret]

\* f.UserMessage(fstr)
factory_UserMessage(fs, f, fstr) ==
    LET cp == factory_clone(fs, f)
    IN  [facs |-> [cp.facs EXCEPT ![cp.ret].safeMessage = fstr], ret |-> cp.ret]

\* f.Logs(v)
factory_Logs(fs, f, v) ==
    LET cp == factory_clone(fs, f)
    IN  [facs |-> [cp.facs EXCEPT ![cp.ret].logDetails = @ \o v], ret |-> cp.ret]

\* An inference in which the last marked error decides.
RECURSIVE InferPrivateLastWins(_, _, _)
InferPrivateLastWins(h, private, errs) ==
    IF errs = <<>> THEN private
    ELSE InferPrivateLastWins(h,
            GetHTTPCode(h, Head(errs)) >= 500, Tail(errs))

\* The visibility Mark infers: any marked error below 500 makes it public.
RECURSIVE InferPrivate(_, _, _)
InferPrivate(h, private, errs) ==
    IF errs = <<>> THEN private
    ELSE InferPrivate(h,
            IF GetHTTPCode(h, Head(errs)) < 500 THEN FALSE ELSE private,
            Tail(errs))

\* A Mark that infers the visibility even when it was forced.
factory_MarkIgnoresForced(h, fs, f, errs) ==
    LET cp == factory_clone(fs, f)
        m  == [cp.facs EXCEPT ![cp.ret].markers = @ \o errs]
    IN  [facs |-> [m EXCEPT ![cp.ret].private = InferPrivate(h, @, errs)],
         ret |-> cp.ret]

\* A Mark whose last marked error decides the visibility.
factory_MarkLastWins(h, fs, f, errs) ==
    LET cp == factory_clone(fs, f)
        m  == [cp.facs EXCEPT ![cp.ret].markers = @ \o errs]
    IN  IF m[cp.ret].forced # "nil" THEN [facs |-> m, ret |-> cp.ret]
        ELSE [facs |-> [m EXCEPT ![cp.ret].private = InferPrivateLastWins(h, @, errs)],
              ret |-> cp.ret]

\* f.Mark(errs...)
factory_Mark(h, fs, f, errs) ==
    LET cp == factory_clone(fs, f)
        m  == [cp.facs EXCEPT ![cp.ret].markers = @ \o errs]
    IN  IF m[cp.ret].forced # "nil" THEN [facs |-> m, ret |-> cp.ret]
        ELSE [facs |-> [m EXCEPT ![cp.ret].private = InferPrivate(h, @, errs)],
              ret |-> cp.ret]

\* f.Private()
factory_Private(fs, f) ==
    LET cp == factory_clone(fs, f)
    IN  [facs |-> [cp.facs EXCEPT ![cp.ret].private = TRUE, ![cp.ret].forced = "true"],
         ret |-> cp.ret]

\* f.Public()
factory_Public(fs, f) ==
    LET cp == factory_clone(fs, f)
    IN  [facs |-> [cp.facs EXCEPT ![cp.ret].private = FALSE, ![cp.ret].forced = "false"],
         ret |-> cp.ret]

\* f.Domain(d)
factory_Domain(fs, f, d) ==
    LET cp == factory_clone(fs, f)
    IN  [facs |-> [cp.facs EXCEPT ![cp.ret].domain = d], ret |-> cp.ret]

\* f.Err(): a receiver without a cause is given "unknown error" (in place);
\* the Error Value is built from the fields of the receiver.
factory_Err(h, fs, f) ==
    LET a == IF fs[f].internal = Nil
             THEN Alloc(h, errorString("unknown error"))
             ELSE [heap |-> h, ret |-> fs[f].internal]
        e == [kind |-> "Error", Internal |-> a.ret,
              ExposeInternal |-> ~fs[f].private,
              SafeMessage |-> fs[f].safeMessage,
              LogDetails |-> fs[f].logDetails,
              UserDetails |-> fs[f].userDetails,
              Domain |-> fs[f].domain,
              Markers |-> fs[f].markers]
        b == Alloc(a.heap, e)
    IN  [heap |-> b.heap, facs |-> [fs EXCEPT ![f].internal = a.ret], ret |-> b.ret]

(***************************************************************************)
(* Composing errors: Wrap and Mark applied, in any order, to the errors    *)
(* built so far (or to nil).                                               *)
(***************************************************************************)
OptDomain == [field |-> "Domain", val |-> "opt-domain"]

\* The calls the model makes: Wrap(err, msg, opts...) and
\* Mark(err, sentinel, opts...) for each of these, err being any error built
\* so far, or nil.
WrapCalls ==
    { [msg |-> "a", opts |-> <<>>],
      [msg |-> "b", opts |-> <<>>],
      [msg |-> "a", opts |-> <<OptDomain>>] }
MarkCalls ==
    { [sentinel |-> ErrNotFound, opts |-> <<>>],
      [sentinel |-> ErrUnauthorized, opts |-> <<>>],
      [sentinel |-> ErrNotFound, opts |-> <<OptDomain>>] }

\* The options of the initial Error Value: every field away from its zero.
BaseOpts ==
    << [field |-> "ExposeInternal", val |-> TRUE],
       [field |-> "SafeMessage", val |-> "safe msg"],
       [field |-> "Domain", val |-> "original-domain"],
       [field |-> "LogDetails", val |-> <<"key", "value">>],
       [field |-> "UserDetails", val |-> "details"] >>

ForeignBase == Addr(1)                   \* errors.New("base error")
ComposeHeap == New(<<errorString("base error")>>, "base", BaseOpts)
ErrorBase == ComposeHeap.ret             \* New("base", BaseOpts...)

\* One entry of the history: the operation that returned the object, its
\* arguments, and the object as it was when the operation returned it.
Entry(op, parent, msg, mark, opts, made) ==
    [op |-> op, parent |-> parent, msg |-> msg, mark |-> mark, opts |-> opts,
     made |-> made]
AuxEntry == Entry("aux", Nil, "", Nil, <<>>, Nil)

ComposeProv ==
    [i \in 1 .. Len(ComposeHeap.heap) |->
        IF Addr(i) \in {ForeignBase, ErrorBase}
        THEN Entry("base", Nil, "", Nil, <<>>, ComposeHeap.heap[i])
        ELSE AuxEntry]

\* The history of a heap after an operation: the objects it allocated on the
\* way are auxiliary, the last one is its result.
ExtendProv(pv, h, op, parent, msg, mark, opts) ==
    IF Len(h) = Len(pv) THEN pv
    ELSE [i \in 1 .. Len(h) |->
            IF i <= Len(pv) THEN pv[i]
            ELSE IF i = Len(h) THEN Entry(op, parent, msg, mark, opts, h[i])
            ELSE AuxEntry]

Prov(p) == prov[p - Len(SentinelHeap)]
Results == { Addr(i) : i \in { j \in DOMAIN prov : prov[j].op \in {"Wrap", "Mark"} } }
Operands ==
    { Addr(i) : i \in { j \in DOMAIN prov : prov[j].op \in {"base", "Wrap", "Mark"} } }
    \cup {Nil}

InitCompose ==
    /\ heap = ComposeHeap.heap
    /\ prov = ComposeProv
    /\ last = [op |-> "none", arg |-> Nil, ret |-> Nil]
    /\ facs = <<>>
    /\ flog = <<>>
    /\ resp = NoResp

DoWrap ==
    \E err \in Operands, c \in WrapCalls :
        /\ Cardinality(Results) < MaxOps
        /\ LET r == Wrap(heap, err, c.msg, c.opts) IN
            /\ heap' = r.heap
            /\ prov' = ExtendProv(prov, r.heap, "Wrap", err, c.msg, Nil, c.opts)
            /\ last' = [op |-> "Wrap", arg |-> err, ret |-> r.ret]
        /\ UNCHANGED <<facs, flog, resp>>

DoMark ==
    \E err \in Operands, c \in MarkCalls :
        /\ Cardinality(Results) < MaxOps
        /\ LET r == Mark(heap, err, c.sentinel, c.opts) IN
            /\ heap' = r.heap
            /\ prov' = ExtendProv(prov, r.heap, "Mark", err, "", c.sentinel, c.opts)
            /\ last' = [op |-> "Mark", arg |-> err, ret |-> r.ret]
        /\ UNCHANGED <<facs, flog, resp>>

NextCompose == DoWrap \/ DoMark

SpecCompose == InitCompose /\ [][NextCompose]_vars

(***************************************************************************)
(* What the history says of a result: the error the sequence of Wrap and   *)
(* Mark calls started from, the sentinels marked on the way, and the text  *)
(* the contexts of its Wrap calls spell.                                   *)
(***************************************************************************)
RECURSIVE RootOf(_)
RootOf(p) == IF Prov(p).op = "base" THEN p ELSE RootOf(Prov(p).parent)

RECURSIVE MarksOf(_)
MarksOf(p) ==
    IF Prov(p).op = "base" THEN {}
    ELSE MarksOf(Prov(p).parent) \cup
         (IF Prov(p).op = "Mark" THEN {Prov(p).mark} ELSE {})

RECURSIVE Contexts(_)
Contexts(p) ==
    IF Prov(p).op = "base" THEN ""
    ELSE IF Prov(p).op = "Wrap" THEN Prov(p).msg \o ": " \o Contexts(Prov(p).parent)
    ELSE Contexts(Prov(p).parent)

IsErrorValue(p) == Deref(heap, p).kind = "Error"

\* C1: the text of the result of any sequence of Wrap and Mark calls on a
\* non-nil error e is the contexts of the Wrap calls, outermost first, each
\* followed by ": ", followed by e.Error(); Mark calls add no text.
C1_MessageIsContextChain ==
    \A p \in Results :
        ErrorStr(heap, p) = Contexts(p) \o ErrorStr(heap, RootOf(p))

\* A result two Wrap calls and a Mark call deep, on the foreign error.
C1_Witness ==
    \E p \in Results :
        /\ RootOf(p) = ForeignBase
        /\ Contexts(p) = "b: a: "
        /\ MarksOf(p) # {}
        /\ ErrorStr(heap, p) = "b: a: base error"

\* The first call of the sequence that made p: the one applied to the error
\* the sequence started from.
RECURSIVE FirstOp(_)
FirstOp(p) ==
    IF Prov(Prov(p).parent).op = "base" THEN Prov(p).op ELSE FirstOp(Prov(p).parent)

C3_MarkedOnlyWithOwnSentinel ==
    \A b \in Operands \ {Nil} : \A r1, r2 \in Results :
        ( /\ IsErrorValue(b)
          /\ Prov(r1).op = "Mark" /\ Prov(r1).parent = b
          /\ Prov(r2).op = "Mark" /\ Prov(r2).parent = b
          /\ Prov(r1).mark # Prov(r2).mark )
        => /\ Deref(heap, b) = Prov(b).made
           /\ ~Is(heap, r1, Prov(r2).mark)

\* C3, amended: Mark leaves its argument as it was, and of two results of
\* marking one Error Value with different sentinels one matches the sentinel
\* of the other only if the marked value matched it already.
C3_MarkDoesNotMutate ==
    /\ \A b \in Operands \ {Nil} :
          IsErrorValue(b) =>
            /\ Deref(heap, b) = Prov(b).made
            /\ Range(Deref(heap, b).Markers) = Range(Prov(b).made.Markers)
    /\ last.op = "Mark" /\ last.arg # Nil => last.ret # last.arg
    /\ \A b \in Operands \ {Nil} : \A r1, r2 \in Results :
          ( /\ IsErrorValue(b)
            /\ Prov(r1).op = "Mark" /\ Prov(r1).parent = b
            /\ Prov(r2).op = "Mark" /\ Prov(r2).parent = b
            /\ Prov(r1).mark # Prov(r2).mark )
          => (Is(heap, r1, Prov(r2).mark) => Is(heap, b, Prov(r2).mark))

\* The initial Error Value, without markers, marked twice.
C3_Witness ==
    \E r1, r2 \in Results :
        /\ Prov(r1).op = "Mark" /\ Prov(r1).parent = ErrorBase
        /\ Prov(r2).op = "Mark" /\ Prov(r2).parent = ErrorBase
        /\ Prov(r1).mark # Prov(r2).mark
        /\ Deref(heap, ErrorBase).Markers = <<>>
        /\ ~Is(heap, r1, Prov(r2).mark)
        /\ ~Is(heap, r2, Prov(r1).mark)

\* C4: Wrap of an Error Value v, without options, returns a new Error Value
\* with the ExposeInternal, SafeMessage, Domain, UserDetails, LogDetails and
\* markers of v; its text is that of v behind the new context.
C4_WrapPreservesFields ==
    \A p \in Results :
        (Prov(p).op = "Wrap" /\ Prov(p).opts = <<>> /\ IsErrorValue(Prov(p).parent))
        => LET v == Deref(heap, Prov(p).parent)
               w == Deref(heap, p)
           IN  /\ p # Prov(p).parent
               /\ w.kind = "Error"
               /\ w.ExposeInternal = v.ExposeInternal
               /\ w.SafeMessage = v.SafeMessage
               /\ w.Domain = v.Domain
               /\ w.UserDetails = v.UserDetails
               /\ w.LogDetails = v.LogDetails
               /\ Range(w.Markers) = Range(v.Markers)
               /\ ErrorStr(heap, p) =
                      Prov(p).msg \o ": " \o ErrorStr(heap, Prov(p).parent)

\* A marked Error Value with every field set, wrapped without options.
C4_Witness ==
    \E p \in Results :
        /\ Prov(p).op = "Wrap" /\ Prov(p).opts = <<>>
        /\ IsErrorValue(Prov(p).parent)
        /\ Deref(heap, Prov(p).parent).Markers # <<>>
        /\ Deref(heap, p).ExposeInternal /\ Deref(heap, p).SafeMessage = "safe msg"
        /\ Deref(heap, p).Markers # <<>>

\* C5: Wrap and Mark of a nil error return nil, whatever the message, the
\* sentinel and the options; they allocate nothing and apply no option.
C5_NilPropagates ==
    [][last'.arg = Nil => (last'.ret = Nil /\ heap' = heap)]_vars

\* Mark called on nil, with or without an option, after errors were built.
C5_Witness ==
    /\ last.op = "Mark" /\ last.arg = Nil /\ last.ret = Nil
    /\ Results # {}

(***************************************************************************)
(* Classifying errors: GetHTTPCode applied to a sentinel, to a foreign     *)
(* error, to nil, and to what chains of Mark (with any sentinel) and Wrap  *)
(* make of them.                                                           *)
(***************************************************************************)
InitClassify ==
    /\ heap = <<errorString("boom")>>
    /\ prov = <<Entry("base", Nil, "", Nil, <<>>, errorString("boom"))>>
    /\ last = [op |-> "none", arg |-> Nil, ret |-> Nil]
    /\ facs = <<>>
    /\ flog = <<>>
    /\ resp = NoResp

\* The error under construction: the last result, or an error to start from.
ChainHeads == IF Results = {} THEN {ForeignBase, ErrNotFound} ELSE {Addr(Len(heap))}

ChainMark ==
    \E err \in ChainHeads, sentinel \in Sentinels :
        /\ Cardinality(Results) < MaxChain
        /\ LET r == Mark(heap, err, sentinel, <<>>) IN
            /\ heap' = r.heap
            /\ prov' = ExtendProv(prov, r.heap, "Mark", err, "", sentinel, <<>>)
            /\ last' = [op |-> "Mark", arg |-> err, ret |-> r.ret]
        /\ UNCHANGED <<facs, flog, resp>>

ChainWrap ==
    \E err \in ChainHeads :
        /\ Cardinality(Results) < MaxChain
        /\ LET r == Wrap(heap, err, "ctx", <<>>) IN
            /\ heap' = r.heap
            /\ prov' = ExtendProv(prov, r.heap, "Wrap", err, "ctx", Nil, <<>>)
            /\ last' = [op |-> "Wrap", arg |-> err, ret |-> r.ret]
        /\ UNCHANGED <<facs, flog, resp>>

Classify ==
    \E err \in ChainHeads \cup Sentinels \cup {Nil} :
        /\ last' = [op |-> "GetHTTPCode", arg |-> err, ret |-> GetHTTPCode(heap, err)]
        /\ UNCHANGED <<heap, prov, facs, flog, resp>>

NextClassify == ChainMark \/ ChainWrap \/ Classify

SpecClassify == InitClassify /\ [][NextClassify]_vars

\* The mapping as the documentation lists it, highest priority first.
MappingOrder ==
    << [refs |-> <<ErrNotImplemented>>, status |-> 501],
       [refs |-> <<DeadlineExceeded>>, status |-> 504],
       [refs |-> <<ErrRemoteServiceErr>>, status |-> 502],
       [refs |-> <<ErrRateLimited>>, status |-> 429],
       [refs |-> <<ErrInvalidArgument, ErrMissingArgument, ErrOutOfRange>>, status |-> 400],
       [refs |-> <<ErrPermissionDenied>>, status |-> 403],
       [refs |-> <<ErrUnauthorized>>, status |-> 401],
       [refs |-> <<ErrExists, ErrOutdated>>, status |-> 409],
       [refs |-> <<ErrNotFound>>, status |-> 404] >>

FirstMatchStatus(h, err) ==
    LET hits == { i \in DOMAIN MappingOrder : IsAny(h, err, MappingOrder[i].refs) }
    IN  IF hits = {} THEN 500
        ELSE MappingOrder[CHOOSE i \in hits : \A j \in hits : i <= j].status

\* C6: GetHTTPCode(err) is the status of the first entry of the documented
\* order that err matches, and 500 when err matches none.
C6_FirstMatchWins ==
    last.op = "GetHTTPCode" => last.ret = FirstMatchStatus(heap, last.arg)

\* An error that matches both ErrNotFound and ErrUnauthorized gets 401.
C6_Witness ==
    /\ last.op = "GetHTTPCode"
    /\ Is(heap, last.arg, ErrNotFound)
    /\ Is(heap, last.arg, ErrUnauthorized)
    /\ last.ret = 401

(***************************************************************************)
(* Building errors with the Factory: every method applied to F() and to    *)
(* the snapshots derived from it, old snapshots being used again.          *)
(***************************************************************************)
DbErr == Addr(1)       \* errors.New("db error"), a foreign error

\* The arguments of the Mark calls the model makes.
MarkArgs ==
    { <<ErrRateLimited>>, <<ErrNotImplemented>>, <<DbErr, ErrNotFound>>, <<DbErr>> }

FEntry(op, parent, errs) == [op |-> op, parent |-> parent, errs |-> errs]

InitFactory ==
    /\ heap = <<errorString("db error")>>
    /\ prov = <<Entry("base", Nil, "", Nil, <<>>, errorString("db error"))>>
    /\ last = [op |-> "F", arg |-> Nil, ret |-> 1]
    /\ facs = <<F>>
    /\ flog = <<FEntry("F", Nil, <<>>)>>
    /\ resp = NoResp

ErrResults == { Addr(i) : i \in { j \in DOMAIN prov : prov[j].op = "Err" } }
FactoryOps == Len(facs) - 1 + Cardinality(ErrResults)

\* The receivers of the calls: the base factory and the newest snapshot.
Receivers == {1, Len(facs)}

\* The history after a builder call: the snapshot it returned, when new.
ExtendFlog(fl, fs, op, parent, errs) ==
    IF Len(fs) = Len(fl) THEN fl ELSE Append(fl, FEntry(op, parent, errs))

ExtendAux(pv, h) == [i \in 1 .. Len(h) |-> IF i <= Len(pv) THEN pv[i] ELSE AuxEntry]

\* A builder call that leaves the error heap alone.
Built(op, f, errs, r) ==
    /\ facs' = r.facs
    /\ flog' = ExtendFlog(flog, r.facs, op, f, errs)
    /\ last' = [op |-> op, arg |-> f, ret |-> r.ret]
    /\ UNCHANGED <<heap, prov, resp>>

DoMessage ==
    \E f \in Receivers :
        /\ FactoryOps < MaxFactoryOps
        /\ LET r == factory_Message(heap, facs, f, "x") IN
            /\ heap' = r.heap
            /\ prov' = ExtendAux(prov, r.heap)
            /\ facs' = r.facs
            /\ flog' = ExtendFlog(flog, r.facs, "Message", f, <<>>)
            /\ last' = [op |-> "Message", arg |-> f, ret |-> r.ret]
        /\ UNCHANGED resp

DoUserMessage ==
    \E f \in Receivers :
        /\ FactoryOps < MaxFactoryOps
        /\ Built("UserMessage", f, <<>>, factory_UserMessage(facs, f, "safe"))

DoLogs ==
    \E f \in Receivers :
        /\ FactoryOps < MaxFactoryOps
        /\ Built("Logs", f, <<>>, factory_Logs(facs, f, <<"k", "v">>))

DoFactoryMark ==
    \E f \in Receivers, errs \in MarkArgs :
        /\ FactoryOps < MaxFactoryOps
        /\ Built("Mark", f, errs, factory_Mark(heap, facs, f, errs))

DoPrivate ==
    \E f \in Receivers :
        /\ FactoryOps < MaxFactoryOps
        /\ Built("Private", f, <<>>, factory_Private(facs, f))

DoPublic ==
    \E f \in Receivers :
        /\ FactoryOps < MaxFactoryOps
        /\ Built("Public", f, <<>>, factory_Public(facs, f))

DoDomain ==
    \E f \in Receivers :
        /\ FactoryOps < MaxFactoryOps
        /\ Built("Domain", f, <<>>, factory_Domain(facs, f, "users"))

DoErr ==
    \E f \in Receivers :
        /\ FactoryOps < MaxFactoryOps
        /\ LET r == factory_Err(heap, facs, f) IN
            /\ heap' = r.heap
            /\ prov' = ExtendProv(prov, r.heap, "Err", f, "", Nil, <<>>)
            /\ facs' = r.facs
            /\ last' = [op |-> "Err", arg |-> f, ret |-> r.ret]
        /\ UNCHANGED <<flog, resp>>

NextFactory ==
    \/ DoMessage \/ DoUserMessage \/ DoLogs \/ DoFactoryMark
    \/ DoPrivate \/ DoPublic \/ DoDomain \/ DoErr

SpecFactory == InitFactory /\ [][NextFactory]_vars

(***************************************************************************)
(* What the history says of a snapshot: the last Private or Public call of *)
(* its lineage, the errors marked in it, and the calls that led to it.     *)
(***************************************************************************)
RECURSIVE LastForce(_)
LastForce(f) ==
    IF flog[f].op \in {"Private", "Public"} THEN flog[f].op
    ELSE IF flog[f].op = "F" THEN "none"
    ELSE LastForce(flog[f].parent)

RECURSIVE MarkedIn(_)
MarkedIn(f) ==
    IF flog[f].op = "F" THEN {}
    ELSE MarkedIn(flog[f].parent) \cup Range(flog[f].errs)

RECURSIVE Lineage(_)
Lineage(f) ==
    IF flog[f].op = "F" THEN <<>> ELSE Append(Lineage(flog[f].parent), flog[f].op)

\* What f.Err() materialises, field by field.
ErrView(h, fs, f) ==
    LET r == factory_Err(h, fs, f)
        e == Deref(r.heap, r.ret)
    IN  [message |-> ErrorStr(r.heap, r.ret),
         SafeMessage |-> e.SafeMessage,
         LogDetails |-> e.LogDetails,
         Markers |-> e.Markers,
         Domain |-> e.Domain,
         ExposeInternal |-> e.ExposeInternal]

\* C7: once Private() or Public() was called in the lineage of a factory,
\* Err() yields ExposeInternal=false if the last such call was Private() and
\* true if it was Public(), whatever was marked before or after.
C7_ForcedVisibilityIsLocked ==
    \A f \in DOMAIN facs :
        LastForce(f) # "none" =>
            ErrView(heap, facs, f).ExposeInternal = (LastForce(f) = "Public")

\* F().Private().Mark(ErrRateLimited) stays private.
C7_Witness ==
    \E f \in DOMAIN facs :
        /\ Lineage(f) = <<"Private", "Mark">>
        /\ ErrRateLimited \in MarkedIn(f)
        /\ ~ErrView(heap, facs, f).ExposeInternal

\* C8: in a lineage without Private() and Public(), Err() yields
\* ExposeInternal=true exactly when some error passed to a Mark call of the
\* lineage has a GetHTTPCode status below 500.
C8_InferredVisibility ==
    \A f \in DOMAIN facs :
        LastForce(f) = "none" =>
            ( ErrView(heap, facs, f).ExposeInternal
              <=> \E e \in MarkedIn(f) : GetHTTPCode(heap, e) < 500 )

\* A lineage that marks a 429 sentinel and then a 501 sentinel is public; one
\* that marks only a 501 sentinel is private.
C8_Witness ==
    \E f, g \in DOMAIN facs :
        /\ Lineage(f) = <<"Mark", "Mark">>
        /\ flog[f].errs = <<ErrNotImplemented>>
        /\ flog[flog[f].parent].errs = <<ErrRateLimited>>
        /\ ErrView(heap, facs, f).ExposeInternal
        /\ Lineage(g) = <<"Mark">>
        /\ flog[g].errs = <<ErrNotImplemented>>
        /\ ~ErrView(heap, facs, g).ExposeInternal

\* C9: no Factory method changes what Err() materialises from a snapshot
\* that exists already: message, SafeMessage, LogDetails, markers, Domain
\* and ExposeInternal stay as they were.
C9_SnapshotsAreImmutable ==
    [][\A f \in DOMAIN facs :
          ErrView(heap', facs', f) = ErrView(heap, facs, f)]_vars

\* The base factory was used twice, after a snapshot was derived from it.
C9_Witness ==
    /\ Len(facs) >= 3
    /\ last.arg = 1
    /\ flog[Len(facs)].parent = 1
    /\ flog[2].parent = 1
    /\ flog[Len(facs)].op # flog[2].op
    /\ ErrView(heap, facs, 1) = ErrView(<<errorString("db error")>>, <<F>>, 1)

(***************************************************************************)
(* Rendering errors: HandleHTTP applied to nil, to a foreign error, to an  *)
(* Error Value made by New with any of a set of options, and to what       *)
(* chains of Mark and Wrap make of them.                                   *)
(***************************************************************************)
\* The options of the Error Value to render.
RenderOpts ==
    { << [field |-> "SafeMessage", val |-> safe],
         [field |-> "ExposeInternal", val |-> expose],
         [field |-> "UserDetails", val |-> details],
         [field |-> "Domain", val |-> domain],
         [field |-> "LogDetails", val |-> <<"attempted_id", "42">>] >> :
      safe \in {"", "Try again later"}, expose \in BOOLEAN,
      details \in {NilDetails, "details", Unmarshalable},
      domain \in {"", "users"} }

RenderSentinels == {DeadlineExceeded, ErrNotFound, ErrUnauthorized}

\* The log options of the caller.
CallerLogOpts ==
    { <<>>, <<LogErrUseLogger("recorder")>>, <<LogErrUseLogLevel(LevelWarn)>>,
      <<LogErrUseLoggerAttrs(<<"request_id", "r1">>)>> }

InitRender ==
    \E opts \in RenderOpts :
        LET n == New(<<errorString("boom")>>, "db timeout", opts)
            h == n.heap \o << WrapError(n.heap, "lookup", ErrNotFound),
                              errorString("crash"),
                              WrapError(n.heap, "outer", n.ret) >>
        IN
        /\ heap = h
        /\ prov = [i \in 1 .. Len(h) |->
                      IF i = 2 THEN AuxEntry
                      ELSE Entry("base", Nil, "", Nil, <<>>, h[i])]
        /\ last = [op |-> "none", arg |-> Nil, ret |-> Nil]
        /\ facs = <<>>
        /\ flog = <<>>
        /\ resp = NoResp

\* The error under construction: the last result, or an error to start from.
RenderHeads == IF Results = {} THEN {Addr(1), Addr(3)} ELSE {Addr(Len(heap))}

\* Errors made without Wrap and Mark: errors.New("boom"), a sentinel behind
\* fmt.Errorf("lookup: %w", ErrNotFound), errors.New("crash"), the Error Value
\* behind fmt.Errorf("outer: %w", ...), and two sentinels as they are.
RenderInputs == {Addr(1), Addr(4), Addr(5), Addr(6), ErrNotFound, ErrUnauthorized}

RenderMark ==
    \E err \in RenderHeads, sentinel \in RenderSentinels :
        /\ ~resp.called
        /\ Cardinality(Results) < MaxLayers
        /\ LET r == Mark(heap, err, sentinel, <<>>) IN
            /\ heap' = r.heap
            /\ prov' = ExtendProv(prov, r.heap, "Mark", err, "", sentinel, <<>>)
            /\ last' = [op |-> "Mark", arg |-> err, ret |-> r.ret]
        /\ UNCHANGED <<facs, flog, resp>>

RenderWrap ==
    \E err \in RenderHeads :
        /\ ~resp.called
        /\ Cardinality(Results) < MaxLayers
        /\ LET r == Wrap(heap, err, "ctx", <<>>) IN
            /\ heap' = r.heap
            /\ prov' = ExtendProv(prov, r.heap, "Wrap", err, "ctx", Nil, <<>>)
            /\ last' = [op |-> "Wrap", arg |-> err, ret |-> r.ret]
        /\ UNCHANGED <<facs, flog, resp>>

DoHandleHTTP ==
    \E err \in RenderHeads \cup RenderInputs \cup {Nil},
       opts \in CallerLogOpts, writeFails \in BOOLEAN :
        /\ ~resp.called
        /\ resp' = HandleHTTP(heap, Request, err, opts, writeFails)
        /\ last' = [op |-> "HandleHTTP", arg |-> err, ret |-> resp'.handled]
        /\ UNCHANGED <<heap, prov, facs, flog>>

NextRender == RenderMark \/ RenderWrap \/ DoHandleHTTP

SpecRender == InitRender /\ [][NextRender]_vars

\* The message the documentation promises for the Error Value e.
PromisedMessage(e) ==
    IF Deref(heap, e).SafeMessage # "" THEN Deref(heap, e).SafeMessage
    ELSE IF Deref(heap, e).ExposeInternal THEN ErrorStr(heap, e)
    ELSE StatusText(resp.status)

\* C10: for an Error Value, the message in the body HandleHTTP writes is
\* SafeMessage if there is one, else the internal message if ExposeInternal,
\* else the text of the status; without SafeMessage and ExposeInternal the
\* body never carries the internal message.
C10_ResponseMessage ==
    (resp.called /\ resp.err # Nil /\ IsErrorValue(resp.err)) =>
        /\ resp.body # "" =>
              resp.body = MarshalResponse(PromisedMessage(resp.err),
                                          Deref(heap, resp.err).UserDetails).bytes
        /\ resp.body = "" => Deref(heap, resp.err).UserDetails = Unmarshalable
        /\ (Deref(heap, resp.err).SafeMessage = "" /\ ~Deref(heap, resp.err).ExposeInternal)
              => resp.body \in {"", MarshalResponse(StatusText(resp.status),
                                        Deref(heap, resp.err).UserDetails).bytes}

\* New("db timeout") marked DeadlineExceeded: 504 and the generic text.
C10_Witness ==
    /\ resp.called /\ resp.err # Nil /\ IsErrorValue(resp.err)
    /\ ErrorStr(heap, resp.err) = "db timeout"
    /\ Is(heap, resp.err, DeadlineExceeded)
    /\ resp.status = 504
    /\ resp.body = "{\"error\":\"Gateway Timeout\"}"

\* The errors of the heap and the sentinels, and those of them without an
\* Error Value in their chain.
AllErrors == Sentinels \cup { Addr(i) : i \in 1 .. Len(heap) }
IsForeign(p) == AsError(heap, p) = Nil

\* What the client of a response sees.
Visible(r) == <<r.status, r.contentType, r.body>>

\* C11: for a foreign error the body HandleHTTP writes is the text of the
\* status the error is classified as, whatever the text of the error: any
\* other foreign error of the same status gets the same response.
C11_ForeignTextIsRedacted ==
    (resp.called /\ resp.err # Nil /\ IsForeign(resp.err)) =>
        /\ resp.status = GetHTTPCode(heap, resp.err)
        /\ resp.body = StatusText(resp.status) \o "\n"
        /\ \A other \in AllErrors :
              (IsForeign(other) /\ GetHTTPCode(heap, other) = resp.status) =>
                  Visible(HandleHTTP(heap, Request, other, resp.opts, resp.writeFailed))
                      = Visible(resp)

\* fmt.Errorf("lookup: %w", ErrNotFound) rendered while the sentinel itself,
\* with another text, has the same status.
C11_Witness ==
    /\ resp.called /\ resp.err = Addr(4) /\ IsForeign(resp.err)
    /\ ErrorStr(heap, resp.err) = "lookup: not found"
    /\ ErrorStr(heap, ErrNotFound) # ErrorStr(heap, resp.err)
    /\ GetHTTPCode(heap, ErrNotFound) = resp.status
    /\ resp.status = 404 /\ resp.body = "Not Found\n"

\* C12: HandleHTTP returns false exactly when err is nil, and then writes and
\* logs nothing; for every non-nil err it returns true.
C12_HandledIffNonNil ==
    resp.called =>
        /\ resp.handled <=> (resp.err # Nil)
        /\ resp.err = Nil =>
              (resp.status = 0 /\ resp.body = "" /\ resp.contentType = ""
               /\ resp.logs = <<>>)

\* The response was serialized and written without a failure.
RenderedCleanly ==
    /\ resp.called /\ resp.err # Nil
    /\ resp.status = GetHTTPCode(heap, resp.err)
    /\ resp.body # "" /\ ~resp.writeFailed

\* C13: one HandleHTTP call with a non-nil err whose response is serialized
\* and written without failure dispatches exactly one log call, for Error
\* Values and for foreign errors.
C13_ExactlyOneLogCall ==
    RenderedCleanly => Len(resp.logs) = 1

(***************************************************************************)
(* Logging errors: LogErr applied to nil, to foreign errors, to an Error   *)
(* Value and to what chains of Mark and Wrap make of them.                 *)
(***************************************************************************)
DoLogErr ==
    \E err \in RenderHeads \cup RenderInputs \cup {Nil}, opts \in CallerLogOpts :
        /\ ~resp.called
        /\ resp' = [NoResp EXCEPT !.called = TRUE, !.err = err, !.opts = opts,
                                  !.logs = LogErr(heap, err, opts)]
        /\ last' = [op |-> "LogErr", arg |-> err, ret |-> Nil]
        /\ UNCHANGED <<heap, prov, facs, flog>>

NextLog == RenderMark \/ RenderWrap \/ DoLogErr

SpecLog == InitRender /\ [][NextLog]_vars

\* The attributes the caller supplied: those of the last LogErrUseLoggerAttrs.
SuppliedAttrs(opts) ==
    LET set == { i \in DOMAIN opts : opts[i].field = "LoggerAttrs" }
    IN  IF set = {} THEN <<>>
        ELSE opts[CHOOSE i \in set : \A j \in set : j <= i].val

\* C14: LogErr does nothing for a nil err; otherwise it dispatches exactly
\* one log call with the message err.Error() and the attributes LogDetails,
\* then "domain" and Domain if Domain is not empty, then the supplied
\* attributes; for a foreign error, the supplied attributes only.
C14_LogErrAttributes ==
    resp.called =>
        IF resp.err = Nil THEN resp.logs = <<>>
        ELSE /\ Len(resp.logs) = 1
             /\ resp.logs[1].msg = ErrorStr(heap, resp.err)
             /\ resp.logs[1].attrs =
                  IF IsForeign(resp.err) THEN SuppliedAttrs(resp.opts)
                  ELSE LET v == Deref(heap, AsError(heap, resp.err))
                       IN  v.LogDetails
                           \o (IF v.Domain = "" THEN <<>> ELSE <<"domain", v.Domain>>)
                           \o SuppliedAttrs(resp.opts)

\* An Error Value with log details and a domain, logged with an attribute
\* of the caller.
C14_Witness ==
    /\ resp.called /\ resp.err # Nil /\ IsErrorValue(resp.err)
    /\ Len(resp.logs) = 1
    /\ resp.logs[1].attrs =
          <<"attempted_id", "42", "domain", "users", "request_id", "r1">>

\* The caller set no log level.
NoLevelOverride(opts) == \A i \in DOMAIN opts : opts[i].field # "LogLevel"

\* The attributes of the request as HandleHTTP logs them.
RequestAttrs(status) ==
    << "method", Request.Method, "path", Request.Path,
       "status", status, "remote_addr", Request.RemoteAddr >>

\* The attributes end with those of the request.
CarriesRequest(attrs, status) ==
    /\ Len(attrs) >= Len(RequestAttrs(status))
    /\ SubSeq(attrs, Len(attrs) - Len(RequestAttrs(status)) + 1, Len(attrs))
          = RequestAttrs(status)

\* C15: without a log level of the caller, every log record HandleHTTP
\* emits for the rendered error has the severity HTTPGetLogLevel of the
\* status of the error (error from 500, warn for 401 and 403, debug
\* otherwise) and carries method, path, status and remote_addr.
C15_LogLevelFollowsStatus ==
    (resp.called /\ resp.err # Nil /\ NoLevelOverride(resp.opts)) =>
        \A i \in DOMAIN resp.logs :
            resp.logs[i].msg = ErrorStr(heap, resp.err) =>
                /\ resp.logs[i].level =
                      HTTPGetLogLevel(GetHTTPCode(heap, resp.err))
                /\ CarriesRequest(resp.logs[i].attrs, GetHTTPCode(heap, resp.err))

(***************************************************************************)
(* The order of Mark calls on a factory.                                   *)
(***************************************************************************)
\* The last error passed to the last Mark call of the lineage, if any.
RECURSIVE LastMarked(_)
LastMarked(f) ==
    IF flog[f].op = "F" THEN Nil
    ELSE IF flog[f].op = "Mark" /\ flog[f].errs # <<>>
         THEN flog[f].errs[Len(flog[f].errs)]
    ELSE LastMarked(flog[f].parent)

\* C16, as claimed: in a lineage without Private() and Public(), Err()
\* yields ExposeInternal=true if the last marked error maps to a status
\* below 500 and false if it maps to 500 or above.
C16_LastMarkWins ==
    \A f \in DOMAIN facs :
        (LastForce(f) = "none" /\ LastMarked(f) # Nil) =>
            ( ErrView(heap, facs, f).ExposeInternal
              <=> GetHTTPCode(heap, LastMarked(f)) < 500 )

\* C16, amended: in a lineage without Private() and Public() a Mark call
\* makes the factory public if one of its errors maps to a status below 500
\* and otherwise leaves the visibility as it was, so a public factory stays
\* public whatever is marked later; the other builders keep the visibility.
C16_PublicMarkIsSticky ==
    \A f \in DOMAIN facs :
        (LastForce(f) = "none" /\ flog[f].op # "F") =>
            ( ErrView(heap, facs, f).ExposeInternal
              <=> \/ ErrView(heap, facs, flog[f].parent).ExposeInternal
                  \/ /\ flog[f].op = "Mark"
                     /\ \E i \in DOMAIN flog[f].errs :
                            GetHTTPCode(heap, flog[f].errs[i]) < 500 )

\* F().Mark(ErrRateLimited).Mark(ErrNotImplemented): the last marked error
\* maps to 501 and the factory is public.
C16_Witness ==
    \E f \in DOMAIN facs :
        /\ LastForce(f) = "none"
        /\ flog[f].op = "Mark" /\ flog[flog[f].parent].op = "Mark"
        /\ GetHTTPCode(heap, LastMarked(flog[f].parent)) = 429
        /\ GetHTTPCode(heap, LastMarked(f)) = 501
        /\ ErrView(heap, facs, f).ExposeInternal

(***************************************************************************)
(* Newf.  A format is a sequence of pieces, literal text or a verb; an     *)
(* argument is a value with its dynamic type.                              *)
(***************************************************************************)
MaxArgs == 3       \* arguments of Newf after the format

Lit(text) == [verb |-> "", text |-> text]
Verb(v) == [verb |-> v, text |-> ""]

NoOption == [field |-> "", val |-> ""]
StringArg(str) ==
    [type |-> "string", text |-> str, int |-> 0, opt |-> NoOption, err |-> Nil]
IntArg(n) ==
    [type |-> "int", text |-> "", int |-> n, opt |-> NoOption, err |-> Nil]
ErrorArg(err) ==
    [type |-> "error", text |-> "", int |-> 0, opt |-> NoOption, err |-> err]
\* A value of the named type Option, e.g. errs.Option(func(e *Error) {...}).
OptionArg(opt) ==
    [type |-> "errs.Option", text |-> "", int |-> 0, opt |-> opt, err |-> Nil]
\* A function literal func(e *Error) {...}: its dynamic type is the unnamed
\* function type, not Option.
FuncArg(opt) ==
    [type |-> "func(*errs.Error)", text |-> "", int |-> 0, opt |-> opt, err |-> Nil]

\* The address a function value prints as, in hexadecimal and in decimal.
FuncAddrHex == "0x4a5b60"
FuncAddrDec == "4873056"

\* What fmt prints for a value under %v: a string and an integer as they
\* are, an error as its Error(), a function as its address.
ValueText(h, a) ==
    CASE a.type = "string" -> a.text
      [] a.type = "int"    -> ToString(a.int)
      [] a.type = "error"  -> ErrorStr(h, a.err)
      [] OTHER             -> FuncAddrHex

\* The dynamic type as %T names it.
TypeText(h, a) ==
    IF a.type # "error" THEN a.type
    ELSE IF a.err = DeadlineExceeded THEN "context.deadlineExceededError"
    ELSE CASE Deref(h, a.err).kind = "errorString" -> "*errors.errorString"
           [] Deref(h, a.err).kind = "wrapError"   -> "*fmt.wrapError"
           [] Deref(h, a.err).kind = "wrapErrors"  -> "*fmt.wrapErrors"
           [] Deref(h, a.err).kind = "Error"       -> "*errs.Error"

\* %!verb(type=value): the verb does not apply to the operand.
BadVerb(h, v, a) ==
    "%!" \o v \o "(" \o TypeText(h, a) \o "=" \o ValueText(h, a) \o ")"

\* What fmt prints for one verb and its operand, for the verbs v, s, q, d
\* and w and the operands for which the text is a function of what the model
\* keeps; no other case is defined.  Error() is called under v, s and q (and
\* under w, which fmt.Errorf treats as v); under d an error prints as the
\* value it is.  Quoting is that of strings which need no escape.
Operand(h, v, a) ==
    CASE a.type = "string" /\ v \in {"v", "s"} -> a.text
      [] a.type = "string" /\ v = "q"          -> "\"" \o a.text \o "\""
      [] a.type = "string" /\ v \in {"d", "w"} -> BadVerb(h, v, a)
      [] a.type = "int" /\ v \in {"v", "d"}    -> ToString(a.int)
      [] a.type = "int" /\ v \in {"s", "w"}    -> BadVerb(h, v, a)
      [] a.type = "error" /\ v \in {"v", "s", "w"} -> ErrorStr(h, a.err)
      [] a.type = "error" /\ v = "q" -> "\"" \o ErrorStr(h, a.err) \o "\""
      [] a.type = "error" /\ v = "d" /\ a.err = DeadlineExceeded -> "{}"
      [] a.type = "error" /\ v = "d" /\ a.err # DeadlineExceeded
            /\ Deref(h, a.err).kind = "errorString" ->
            "&{%!d(string=" \o Deref(h, a.err).msg \o ")}"
      [] a.type \in {"errs.Option", "func(*errs.Error)"} /\ v = "v" -> FuncAddrHex
      [] a.type \in {"errs.Option", "func(*errs.Error)"} /\ v = "d" -> FuncAddrDec
      [] a.type \in {"errs.Option", "func(*errs.Error)"} /\ v \in {"s", "q", "w"} ->
            BadVerb(h, v, a)

RECURSIVE Extra(_, _)
Extra(h, args) ==
    IF args = <<>> THEN ""
    ELSE TypeText(h, Head(args)) \o "=" \o ValueText(h, Head(args))
         \o (IF Tail(args) = <<>> THEN "" ELSE ", ")
         \o Extra(h, Tail(args))

\* fmt.Sprintf(format, args...)
RECURSIVE Sprintf(_, _, _)
Sprintf(h, format, args) ==
    IF format = <<>>
    THEN IF args = <<>> THEN "" ELSE "%!(EXTRA " \o Extra(h, args) \o ")"
    ELSE IF Head(format).verb = ""
    THEN Head(format).text \o Sprintf(h, Tail(format), args)
    ELSE IF args = <<>>
    THEN "%!" \o Head(format).verb \o "(MISSING)" \o Sprintf(h, Tail(format), args)
    ELSE Operand(h, Head(format).verb, Head(args))
         \o Sprintf(h, Tail(format), Tail(args))

\* The error operands of the %w verbs of the format, in order.
RECURSIVE Wrapped(_, _)
Wrapped(format, args) ==
    IF format = <<>> \/ args = <<>> THEN <<>>
    ELSE IF Head(format).verb = "" THEN Wrapped(Tail(format), args)
    ELSE (IF Head(format).verb = "w" /\ Head(args).type = "error"
          THEN <<Head(args).err>> ELSE <<>>)
         \o Wrapped(Tail(format), Tail(args))

\* The number of %w verbs of the format that consumed an operand, error or
\* not.
RECURSIVE WrapVerbs(_, _)
WrapVerbs(format, args) ==
    IF format = <<>> \/ args = <<>> THEN 0
    ELSE IF Head(format).verb = "" THEN WrapVerbs(Tail(format), args)
    ELSE (IF Head(format).verb = "w" THEN 1 ELSE 0)
         + WrapVerbs(Tail(format), Tail(args))

\* fmt.Errorf(format, args...): the kind of the result follows the number
\* of %w verbs with an operand.  None: an errors.New value.  One: a value
\* that unwraps to the operand, or to nil when the operand is no error.
\* Several: a value whose Unwrap() []error returns the operands that are
\* errors.
Errorf(h, format, args) ==
    LET w == Wrapped(format, args)
        n == WrapVerbs(format, args)
    IN  IF n = 0 THEN errorString(Sprintf(h, format, args))
        ELSE IF n = 1
        THEN [kind |-> "wrapError", msg |-> Sprintf(h, format, args),
              Internal |-> IF w = <<>> THEN Nil ELSE w[1]]
        ELSE [kind |-> "wrapErrors", msg |-> Sprintf(h, format, args), errs |-> w]

\* arg.(Option) succeeds: the dynamic type of the argument is Option.
IsOption(a) == a.type = "errs.Option"
NotOption(a) == ~IsOption(a)

RECURSIVE OptionsOf(_)
OptionsOf(args) ==
    IF args = <<>> THEN <<>> ELSE <<Head(args).opt>> \o OptionsOf(Tail(args))

\* Newf(internalMsgFmt, args...): the arguments that are Options are applied
\* in order, the others are formatted.
Newf(h, format, args) ==
    LET e         == ApplyOptions(ErrorValue(Nil), OptionsOf(SelectSeq(args, IsOption)))
        cleanArgs == SelectSeq(args, NotOption)
        a         == Alloc(h, Errorf(h, format, cleanArgs))
    IN  Alloc(a.heap, [e EXCEPT !.Internal = a.ret])

(***************************************************************************)
(* Making errors with Newf: formats with and without verbs, and every      *)
(* list of up to MaxArgs arguments taken from strings, an error, Options   *)
(* and a function literal.                                                 *)
(***************************************************************************)
Formats ==
    << <<Lit("simple")>>,
       <<Lit("test "), Verb("s")>>,
       <<Lit("error: "), Verb("s"), Lit(" "), Verb("d")>>,
       <<Lit("v="), Verb("v")>>,
       <<Lit("wrapped: "), Verb("w")>>,
       <<Verb("w"), Lit(": "), Verb("w")>> >>

ArgValues ==
    << StringArg("msg"), IntArg(42), ErrorArg(Addr(1)), ErrorArg(ErrNotFound),
       OptionArg([field |-> "Domain", val |-> "domain"]),
       OptionArg([field |-> "SafeMessage", val |-> "safe"]),
       FuncArg([field |-> "Domain", val |-> "domain"]) >>

\* The arguments a list of indices stands for.
ArgsAt(ix) == [i \in DOMAIN ix |-> ArgValues[ix[i]]]

InitNewf ==
    /\ heap = <<errorString("boom")>>
    /\ prov = <<Entry("base", Nil, "", Nil, <<>>, errorString("boom"))>>
    /\ last = [op |-> "none", arg |-> <<>>, ret |-> Nil]
    /\ facs = <<>>
    /\ flog = <<>>
    /\ resp = NoResp

DoNewf ==
    \E f \in DOMAIN Formats, n \in 0 .. MaxArgs :
        \E ix \in [1 .. n -> DOMAIN ArgValues] :
            /\ last.op = "none"
            /\ LET r == Newf(heap, Formats[f], ArgsAt(ix)) IN
                /\ heap' = r.heap
                /\ prov' = ExtendProv(prov, r.heap, "Newf", Nil, "", Nil, <<>>)
                /\ last' = [op |-> "Newf", arg |-> <<f, ix>>, ret |-> r.ret]
            /\ UNCHANGED <<facs, flog, resp>>

NextNewf == DoNewf

SpecNewf == InitNewf /\ [][NextNewf]_vars

\* A function taking *Error, whether a value of type Option or a literal.
IsOptionFunction(a) == a.type \in {"errs.Option", "func(*errs.Error)"}
NotOptionFunction(a) == ~IsOptionFunction(a)

\* C17: Newf applies every option-function argument, a plain function
\* literal included, in argument order, keeps those arguments out of the
\* message and formats the others in their order.
C17_NewfAppliesOptions ==
    last.op = "Newf" =>
        LET format == Formats[last.arg[1]]
            args   == ArgsAt(last.arg[2])
            e      == Deref(heap, last.ret)
        IN  /\ e = [ApplyOptions(ErrorValue(Nil),
                                 OptionsOf(SelectSeq(args, IsOptionFunction)))
                      EXCEPT !.Internal = e.Internal]
            /\ ErrorStr(heap, last.ret) =
                  Sprintf(heap, format, SelectSeq(args, NotOptionFunction))

\* C18: when json.Marshal of the body fails for an Error Value, HandleHTTP
\* logs the failure, writes the status 500 without a body and without the
\* classified status and Content-Type, and returns true; when the write of
\* the body fails after the body was serialized, the failure is logged and
\* the result is still true.
C18_RenderFailures ==
    (resp.called /\ resp.err # Nil /\ ~IsForeign(resp.err)) =>
        LET v == Deref(heap, AsError(heap, resp.err))
            n == Len(resp.logs)
        IN  /\ v.UserDetails = Unmarshalable =>
                  /\ resp.handled
                  /\ resp.status = 500 /\ resp.body = "" /\ resp.contentType = ""
                  /\ n >= 1
                  /\ resp.logs[n].msg = "failed to marshal error response: " \o MarshalErr
            /\ (v.UserDetails # Unmarshalable /\ resp.writeFailed) =>
                  /\ resp.handled
                  /\ resp.status = GetHTTPCode(heap, resp.err)
                  /\ n >= 1
                  /\ resp.logs[n].msg = "failed to write error response: " \o WriteErr
            /\ (v.UserDetails # Unmarshalable /\ ~resp.writeFailed) =>
                  \A i \in 1 .. n : resp.logs[i].msg = ErrorStr(heap, resp.err)

\* An Error Value classified 504 whose details cannot be serialized: the
\* response is a bare 500.
C18_Witness ==
    /\ resp.called /\ resp.err # Nil /\ IsErrorValue(resp.err)
    /\ Deref(heap, resp.err).UserDetails = Unmarshalable
    /\ GetHTTPCode(heap, resp.err) = 504
    /\ resp.status = 500 /\ resp.body = "" /\ resp.handled

====
